---- MODULE Spec2Model ----
(***************************************************************************)
(* rsh: the interactive loop hands a command line to execute_commands,     *)
(* which records it in the history file, parses it and evaluates the       *)
(* resulting CompoundStatement statement by statement.  The evaluator      *)
(* runs built-ins inside the shell and launches external programs as       *)
(* child processes (std::process::Command), optionally piped and           *)
(* redirected.  Child processes run concurrently with the shell.           *)
(***************************************************************************)
EXTENDS Integers, Sequences, FiniteSets, TLC

\* ------------------------------------------------------------------ bounds
\* number of command lines one session submits
MaxLines == 2

\* ------------------------------------------------------------- AST (parse.rs)
Identifier(val) == [type |-> "Identifier", text |-> val]

CommandStatement(val, val2) == [type |-> "CommandStatement", command |-> val, args |-> val2]

Pipeline(val) == [type |-> "Pipeline", commands |-> val]

RedirectInput(destination) == [type |-> "RedirectInput", destination |-> destination]

RedirectOutput(destination) == [type |-> "RedirectOutput", destination |-> destination]

RedirectErrorOutput(destination) == [type |-> "RedirectErrorOutput", destination |-> destination]

Redirect(command, destination) == [type |-> "Redirect", command |-> command, destination |-> destination]

Define(var, data) == [type |-> "Define", var |-> var, data |-> data]

Comment(val) == [type |-> "Comment", comment |-> val]

ExecScript(val) == [type |-> "ExecScript", exec_script |-> val]

\* Node::CompoundStatement
CompoundStatement(val) == [type |-> "CompoundStatement", stmt |-> val]

\* Node::default(): an Identifier holding the empty string
DefaultNode == Identifier("")

\* Node::get_lhs / Node::get_rhs: the command and the arguments of a
\* CommandStatement, the defaults for every other node
get_lhs(node) == IF node.type = "CommandStatement" THEN node.command ELSE DefaultNode

get_rhs(node) == IF node.type = "CommandStatement" THEN node.args ELSE <<>>

\* ------------------------------------------------------ parser (parse.rs)
\* The grammar of parse.rs is kept as data: every nom combinator the source
\* uses is a descriptor, and `parse` applies a descriptor to a text the way
\* nom 7 does, character by character.  A result is [ok, rest, out].

\* character classes of nom::character::complete
Digits == {"0", "1", "2", "3", "4", "5", "6", "7", "8", "9"}

Letters ==
  {"a", "b", "c", "d", "e", "f", "g", "h", "i", "j", "k", "l", "m",
   "n", "o", "p", "q", "r", "s", "t", "u", "v", "w", "x", "y", "z",
   "A", "B", "C", "D", "E", "F", "G", "H", "I", "J", "K", "L", "M",
   "N", "O", "P", "Q", "R", "S", "T", "U", "V", "W", "X", "Y", "Z"}

\* multispace0 / multispace1: spaces, tabs and line endings
MultiSpace == {" ", "\t", "\r", "\n"}

\* space0: spaces and tabs
Space == {" ", "\t"}

\* the characters is_not keeps out of a parse_constant token
ConstantStop == {"\n", " ", "\\", "<", ">", ";", "|", "=", "#"}

\* the characters is_not keeps out of a parse_not_space token
NotSpaceStop == ConstantStop \cup {"!", "\"", "$"}

\* combinator descriptors
tag(t) == [k |-> "tag", t |-> t]

\* is_not: one or more characters outside `chars`
is_not(chars) == [k |-> "is_not", chars |-> chars]

\* take_while (multispace0, space0): zero or more characters of `chars`
take_while(chars) == [k |-> "take_while", chars |-> chars]

\* alphanumeric1 and its like: one or more characters of `chars`
take_while1(chars) == [k |-> "take_while1", chars |-> chars]

\* not_line_ending: everything up to the end of the line
not_line_ending == [k |-> "is_not0", chars |-> {"\n", "\r"}]

alt(ps) == [k |-> "alt", ps |-> ps]

permutation(ps) == [k |-> "permutation", ps |-> ps]

many1(p) == [k |-> "many1", p |-> p]

opt(p) == [k |-> "opt", p |-> p]

\* map(p, f): the closure is named by f and applied by MapOutput
map(p, f) == [k |-> "map", p |-> p, f |-> f]

preceded(a, b) == map(permutation(<<a, b>>), "second")

delimited(a, b, c) == map(permutation(<<a, b, c>>), "second")

\* results
ParseOk(rest, out) == [ok |-> TRUE, rest |-> rest, out |-> out]

ParseErr(s) == [ok |-> FALSE, rest |-> s, out |-> <<>>]

RECURSIVE Span(_, _, _)
\* length of the longest prefix of s whose characters are in chars (inside)
\* or are not in chars (~inside)
Span(s, chars, inside) ==
  IF s = "" THEN 0
  ELSE IF (SubSeq(s, 1, 1) \in chars) = inside THEN 1 + Span(Tail(s), chars, inside)
  ELSE 0

\* the text after its first n characters
Drop(s, n) == SubSeq(s, n + 1, Len(s))

\* a token of n characters is taken from s; with `some` an empty token is an error
Take(s, n, some) == IF some /\ n = 0 THEN ParseErr(s) ELSE ParseOk(Drop(s, n), SubSeq(s, 1, n))

RECURSIVE Concat(_)
\* the push_str loop of parse_filename_with_dot
Concat(parts) == IF Len(parts) = 0 THEN "" ELSE Head(parts) \o Concat(Tail(parts))

\* the closures handed to map, and the Node each parser function builds
MapOutput(f, out) ==
  CASE f = "second" -> out[2]
    [] f = "Identifier" -> Identifier(out)
    [] f = "Comment" -> Comment(out)
    [] f = "filename_with_dot" -> Identifier(Concat(out))
    [] f = "ExecScript" -> ExecScript(out[2])
    [] f = "CommandStatement" ->
         CommandStatement(out[1], IF Len(out[2]) = 0 THEN <<>>
                                  ELSE [i \in 1..Len(out[2][1]) |-> out[2][1][i][2]])
    [] f = "sub_command" -> out[4]
    [] f = "CommandStatement_with_backslash" -> CommandStatement(out[1], out[2])
    [] f = "Define" -> Define(out[2], out[4])
    [] f = "redirect_specifier" ->
         IF out[2] = "<" THEN RedirectInput(out[4])
         ELSE IF out[2] = ">" THEN RedirectOutput(out[4])
         ELSE RedirectErrorOutput(out[4])
    [] f = "Redirect" -> Redirect(out[1], out[2])
    [] f = "Pipeline" -> Pipeline(<<out[1]>> \o [i \in 1..Len(out[2]) |-> out[2][i][4]])
    [] f = "stmt" -> out[1]
    [] f = "statement" -> out[2]
    [] f = "CompoundStatement" -> CompoundStatement(out)

RECURSIVE parse(_, _)
RECURSIVE AltLoop(_, _, _)
RECURSIVE PermutationLoop(_, _, _, _, _)
RECURSIVE Many1Loop(_, _, _)

\* map: the closure is applied to the output of a successful parse
Mapped(f, r) == IF r.ok THEN ParseOk(r.rest, MapOutput(f, r.out)) ELSE r

\* opt: an error becomes None (<<>>), a success Some (<<out>>), nothing consumed on None
Optional(s, r) == IF r.ok THEN ParseOk(r.rest, <<r.out>>) ELSE ParseOk(s, <<>>)

\* alt: the first alternative that succeeds
AltStep(ps, s, i, r) == IF r.ok THEN r ELSE AltLoop(ps, s, i + 1)

AltLoop(ps, s, i) == IF i > Len(ps) THEN ParseErr(s) ELSE AltStep(ps, s, i, parse(ps[i], s))

\* permutation: parser i succeeded (the round starts over on the rest of the
\* text) or failed (the next parser of the round is tried on the same text)
PermutationStep(ps, s, res, i, r) ==
  IF r.ok THEN PermutationLoop(ps, r.rest, [res EXCEPT ![i] = <<r.out>>], 1, FALSE)
  ELSE PermutationLoop(ps, s, res, i + 1, TRUE)

\* permutation: in every round the parsers that have not succeeded yet are
\* tried in order; the round ends in an error when one of them failed and
\* none succeeded, and in success when all have succeeded
PermutationLoop(ps, s, res, i, err) ==
  IF i > Len(ps) THEN (IF err THEN ParseErr(s) ELSE ParseOk(s, [j \in 1..Len(ps) |-> res[j][1]]))
  ELSE IF Len(res[i]) > 0 THEN PermutationLoop(ps, s, res, i + 1, err)
  ELSE PermutationStep(ps, s, res, i, parse(ps[i], s))

\* many1 collecting its elements last to first
Many1StepPrepend(p, s, acc, r) ==
  IF ~r.ok THEN ParseOk(s, acc)
  ELSE IF Len(r.rest) = Len(s) THEN ParseErr(s)
  ELSE Many1Loop(p, r.rest, <<r.out>> \o acc)

\* many1 after the first element: an error ends the repetition, a success
\* that consumed nothing is the Many1 error
Many1Step(p, s, acc, r) ==
  IF ~r.ok THEN ParseOk(s, acc)
  ELSE IF Len(r.rest) = Len(s) THEN ParseErr(s)
  ELSE Many1Loop(p, r.rest, Append(acc, r.out))

Many1Loop(p, s, acc) == Many1Step(p, s, acc, parse(p, s))

\* many1: the first element must parse
Many1First(p, r) == IF r.ok THEN Many1Loop(p, r.rest, <<r.out>>) ELSE r

\* Parser::parse of the combinator p on the text s
parse(p, s) ==
  CASE p.k = "tag" -> IF Len(s) >= Len(p.t) /\ SubSeq(s, 1, Len(p.t)) = p.t
                      THEN ParseOk(Drop(s, Len(p.t)), p.t) ELSE ParseErr(s)
    [] p.k = "is_not" -> Take(s, Span(s, p.chars, FALSE), TRUE)
    [] p.k = "is_not0" -> Take(s, Span(s, p.chars, FALSE), FALSE)
    [] p.k = "take_while" -> Take(s, Span(s, p.chars, TRUE), FALSE)
    [] p.k = "take_while1" -> Take(s, Span(s, p.chars, TRUE), TRUE)
    [] p.k = "alt" -> AltLoop(p.ps, s, 1)
    [] p.k = "permutation" -> PermutationLoop(p.ps, s, [j \in 1..Len(p.ps) |-> <<>>], 1, FALSE)
    [] p.k = "many1" -> Many1First(p.p, parse(p.p, s))
    [] p.k = "opt" -> Optional(s, parse(p.p, s))
    [] p.k = "map" -> Mapped(p.f, parse(p.p, s))

multispace0 == take_while(MultiSpace)

space0 == take_while(Space)

alphanumeric1 == take_while1(Letters \cup Digits)

\* Parse::parse_comment
parse_comment == map(preceded(tag("#"), not_line_ending), "Comment")

\* Parse::parse_constant
parse_constant == map(is_not(ConstantStop), "Identifier")

\* Parse::parse_identifier
parse_identifier ==
  map(alt(<<delimited(tag("\""), is_not({"\""}), tag("\"")),
            delimited(tag("'"), is_not({"'"}), tag("'"))>>), "Identifier")

\* Parse::parse_not_space
parse_not_space == map(is_not(NotSpaceStop), "Identifier")

\* Parse::parse_filename_with_dot
parse_filename_with_dot == map(many1(alt(<<tag("."), alphanumeric1>>)), "filename_with_dot")

\* Parse::parse_filename
parse_filename == alt(<<parse_filename_with_dot, parse_not_space>>)

\* Parse::parse_exec_script
parse_exec_script == map(permutation(<<tag("./"), parse_filename>>), "ExecScript")

\* Parse::parse_command
parse_command ==
  map(permutation(<<parse_constant,
                    opt(many1(permutation(<<take_while({" "}),
                                            alt(<<parse_identifier, parse_constant>>)>>)))>>),
      "CommandStatement")

\* Parse::parse_command_with_backslash
parse_command_with_backslash ==
  map(permutation(<<parse_constant,
                    many1(map(permutation(<<space0,
                                            opt(permutation(<<tag("\\"),
                                                              opt(permutation(<<tag("  "), multispace0, parse_comment>>)),
                                                              space0,
                                                              opt(tag("\n"))>>)),
                                            space0,
                                            alt(<<parse_identifier, parse_constant>>)>>),
                              "sub_command"))>>),
      "CommandStatement_with_backslash")

\* Parse::parse_define
parse_define == map(permutation(<<multispace0, parse_constant, tag("="), parse_identifier>>), "Define")

\* Parse::parse_redirect_specifier
parse_redirect_specifier ==
  map(permutation(<<multispace0, alt(<<tag("<"), tag(">"), tag("2>")>>), multispace0, parse_filename>>),
      "redirect_specifier")

\* Parse::parse_redirect
parse_redirect == map(permutation(<<parse_command, many1(parse_redirect_specifier)>>), "Redirect")

\* Parse::parse_pipeline
parse_pipeline ==
  map(permutation(<<alt(<<parse_command, parse_redirect>>),
                    many1(permutation(<<multispace0, tag("|"), multispace0,
                                        alt(<<parse_redirect, parse_command>>)>>))>>),
      "Pipeline")

\* Parse::parse_statement
parse_statement ==
  map(permutation(<<multispace0,
                    alt(<<parse_comment, parse_redirect, parse_exec_script, parse_define,
                          parse_pipeline, parse_command_with_backslash, parse_command>>),
                    multispace0>>),
      "statement")

\* Parse::parse_compound_statement
parse_compound_statement ==
  map(alt(<<many1(map(permutation(<<parse_statement, opt(tag(";"))>>), "stmt")),
            many1(parse_statement)>>),
      "CompoundStatement")

\* Parse::parse_node
parse_node(input) == parse(parse_compound_statement, input)

\* ------------------------------------------------------------- environment
\* first tokens rsh_execute matches before any process is launched
Builtins == {"cd", "exit", "%fl", "%logo"}

\* programs Command::spawn finds on PATH; every other name fails to launch
Executables == {"ls", "cat"}

\* directories that exist; chdir to any other path fails
Dirs == {"/", "/tmp"}

\* the directory the session starts in
StartDir == "/"

\* a path is <<directory, name>>; names are relative to the working directory
\* unless listed here as absolute
AbsolutePaths == [n \in {"/nodir/x"} |-> <<"/nodir", "x">>]

PathOf(cwd, name) == IF name \in DOMAIN AbsolutePaths THEN AbsolutePaths[name] ELSE <<cwd, name>>

\* files present when the session starts
StartFiles ==
  {<<"/", "in.txt">>, <<"/", "set.rsh">>, <<"/", "two.rsh">>, <<"/", "bad.rsh">>,
   <<"/", "outer.rsh">>, <<"/", "loop.rsh">>}

\* File::create succeeds when the directory of the path exists
Creatable(path) == path[1] \in Dirs

\* ------------------------------------------------------- command lines
\* the expected node of a command with bareword arguments
Cmd(name, args) == CommandStatement(Identifier(name), [i \in 1..Len(args) |-> Identifier(args[i])])

\* a text handed to the parser function fn, not parsed yet
Input(fn, text) == [fn |-> fn, text |-> text, done |-> FALSE, ok |-> FALSE, stmts |-> <<>>, rest |-> text]

\* what the parser function fn makes of a text: ok = FALSE when it fails,
\* otherwise the nodes it returns (the children of the CompoundStatement
\* for parse_node, else the one node) and the text that was left unparsed
Applied(fn, text, r) ==
  [fn |-> fn, text |-> text, done |-> TRUE, ok |-> r.ok,
   stmts |-> IF ~r.ok THEN <<>> ELSE IF fn = "parse_node" THEN r.out.stmt ELSE <<r.out>>,
   rest |-> r.rest]

\* what Parse::parse_node makes of a text
Line(text, r) == Applied("parse_node", text, r)

\* the texts the line editor submits
Texts ==
  { "ls", "nosuch", "cd /tmp", "cd /nodir; ls", "cd", "%logo", "%fl", "exit; ls",
    "ls | cat", "ls | cat | cat", "nosuch | cat", "ls | nosuch", "cd /tmp | cat",
    "ls | exit", "%logo | %fl", "ls | nosuch | cat", "ls | cd /tmp | cat",
    "ls | cat < missing.txt", "ls | cat > out.txt", "ls | cat < in.txt",
    "ls > out.txt", "cat < in.txt", "cat < missing.txt", "ls > /nodir/x",
    "ls\n2> /nodir/x", "cd /tmp > out.txt", "# note\nls", "x=\"1\"",
    "./set.rsh", "./missing.rsh", "| ls",
    "ls; cat", "ls >> out.txt", "ls > a.txt > b.txt", "ls | cat\n2> err.txt", "./two.rsh", "./bad.rsh; ls",
    "ls $x", "ls | cat; ls", "ls > out.txt; cat" }

\* what read_to_string returns for a file
Contents(path) == IF path = <<"/", "set.rsh">> THEN "x=\"1\""
                  ELSE IF path = <<"/", "two.rsh">> THEN "cd /tmp\nls"
                  ELSE IF path = <<"/", "bad.rsh">> THEN "| ls"
                  ELSE IF path = <<"/", "outer.rsh">> THEN "./two.rsh\nls"
                  ELSE IF path = <<"/", "loop.rsh">> THEN "./loop.rsh"
                  ELSE ""

\* the texts of the scripts
ScriptTexts == {Contents(path) : path \in StartFiles}

\* Parse::parse_node on every text of the session, computed once
ParseTable == [text \in Texts \cup ScriptTexts |-> Line(text, parse_node(text))]

Lines == {ParseTable[text] : text \in Texts}

\* ------------------------------------------------------------------ state
VARIABLES
  cwd,        \* working directory of the shell process
  files,      \* paths of the files that exist
  history,    \* records appended to .rsh_history, oldest first
  procs,      \* child processes in spawn order; the pid is the index
  stack,      \* one frame per execute_commands call in progress, innermost last
  waiting,    \* pid the shell is blocked on in Child::wait, 0 when not blocked
  term,       \* "none" while the shell process runs, else how it ended
  code,       \* exit code of the shell process, -1 while it runs
  nlines,     \* command lines submitted so far
  ret,        \* value returned by the last execute_commands call
  buffer,     \* the String rsh_loop hands to execute_commands
  parsed,     \* the last text handed to the parser and what it made of it
  fx,         \* what the evaluation of the current statement has done
  log,        \* the history file: its text, the records written and read
  editor      \* the line editor of rsh_loop in Mode::Input

vars == <<cwd, files, history, procs, stack, waiting, term, code, nlines, ret, buffer, parsed, fx, log, editor>>

\* Stdio values handed to Command
Inherit == [kind |-> "inherit", path |-> <<>>, pipe |-> 0]

Piped == [kind |-> "piped", path |-> <<>>, pipe |-> 0]

FromFile(path) == [kind |-> "file", path |-> path, pipe |-> 0]

\* Stdio::from_raw_fd of the read end of the pipe child `pid` writes to
FromPipe(pid) == [kind |-> "pipe", path |-> <<>>, pipe |-> pid]

\* Evaluator::new
NewEvaluator == [now_process |-> "NoPipe", pipe_commands |-> <<>>]

\* record of effects of one statement evaluation, empty
NoEffects(stmt, dir) ==
  [stmt |-> stmt,        \* the statement being evaluated
   cwd0 |-> dir,         \* working directory when its evaluation started
   calls |-> <<>>,       \* rsh_execute calls: arguments, result, directory before and after
   builtins |-> <<>>,    \* built-in handlers invoked
   opened |-> <<>>,      \* File::open / File::create calls and whether they succeeded
   spawned |-> <<>>,     \* pids of the children created
   pipes |-> 0,          \* pipes created for Stdio::piped()
   held |-> {},          \* pipe ends open in the shell: <<pid of the writing child, stream, end>>
   launched |-> -1,      \* stages handed to the launch loop, -1 when it was not entered
   reports |-> <<>>,     \* messages the shell printed
   returned |-> FALSE]   \* the evaluation of the statement has returned

\* the Evaluator of the innermost execute_commands call
CurrentEvaluator == IF stack = <<>> THEN NewEvaluator ELSE stack[Len(stack)].ev

\* the world the evaluator acts on: the process state, the Evaluator fields of
\* the innermost execute_commands call, and a pending call of execute_commands
\* on the contents of a script
World ==
  [cwd |-> cwd, files |-> files, history |-> history, procs |-> procs,
   stack |-> stack, waiting |-> waiting, term |-> term, code |-> code,
   ret |-> ret, buffer |-> buffer, parsed |-> parsed, fx |-> fx,
   now_process |-> CurrentEvaluator.now_process,
   pipe_commands |-> CurrentEvaluator.pipe_commands,
   call |-> FALSE, script |-> ""]

\* the history file before anything is written to it
NoLog == [file |-> "", written |-> <<>>, read |-> <<>>, reads |-> 0]

\* the line editor when rsh_loop enters Mode::Input with an empty buffer:
\* the buffer is a sequence of characters, cursor_x a byte offset
NoEditor ==
  [buffer |-> <<>>, cursor_x |-> 0, char_count |-> 0,
   pushed_tab |-> FALSE, stack_buffer |-> <<>>, tab_counter |-> 0,
   panic |-> "none",     \* the panic that ended the shell, "none" while it runs
   keys |-> 0,           \* key events handled so far
   found |-> [result |-> "none", n |-> 0, index |-> 0]]  \* the last rsh_char_search

Init ==
  /\ cwd = StartDir
  /\ files = StartFiles
  /\ history = <<>>
  /\ procs = <<>>
  /\ stack = <<>>
  /\ waiting = 0
  /\ term = "none"
  /\ code = -1
  /\ nlines = 0
  /\ ret = 0
  /\ buffer = ""
  /\ parsed = Input("parse_node", "")
  /\ fx = NoEffects(Comment(""), StartDir)
  /\ log = NoLog
  /\ editor = NoEditor

\* ------------------------------------------------------- helpers (effects)
RECURSIVE Join(_)
\* Vec<String>::join(" ")
Join(args) == IF Len(args) = 0 THEN ""
              ELSE IF Len(args) = 1 THEN args[1]
              ELSE args[1] \o " " \o Join(Tail(args))

\* println! / eprintln of the shell itself
Report(w, msg) == [w EXCEPT !.fx.reports = Append(@, msg)]

\* a panic (unwrap on Err, unreachable!) ends the process with code 101
Panic(w, site) == [w EXCEPT !.term = site, !.code = 101]

\* std::process::exit(0)
ProcessExit(w) == [w EXCEPT !.term = "exit", !.code = 0]

\* csv_writer: one "command,time" line appended to <cwd>/.rsh_history
csv_writer(w, command) == [w EXCEPT !.history = Append(@, [file |-> <<w.cwd, ".rsh_history">>, command |-> command])]

\* Identifier::eval for an Identifier node, String::default() for any other
EvalNode(node) == IF node.type = "Identifier" THEN node.text ELSE ""

\* ------------------------------------------------------ built-ins (command/)
\* nix::unistd::chdir from directory `at`: whether it succeeded and the
\* working directory afterwards
chdir(at, dir) == IF dir = "./" THEN [ok |-> TRUE, cwd |-> at]
                  ELSE IF dir \in Dirs THEN [ok |-> TRUE, cwd |-> dir]
                  ELSE [ok |-> FALSE, cwd |-> at]

\* rsh_cd: Err for an empty argument, else the result of chdir
rsh_cd(at, dir) == IF dir # "" THEN chdir(at, dir) ELSE [ok |-> FALSE, cwd |-> at]

\* a faulty rsh_exit that returns Status::success(): the exit property C9
\* does not hold of it
rsh_exit_success == "Success"

\* rsh_exit: prints Bye, returns Status::new(StatusCode::Exit, 0)
rsh_exit == "Exit"

\* a built-in handler is entered
Builtin(w, name) == [w EXCEPT !.fx.builtins = Append(@, name)]

\* Rsh::ignore_tty_signals, the first call of rsh_loop: the disposition of
\* SIGTSTP, SIGTTIN and SIGTTOU in the shell process from then on
ignore_tty_signals == "SigIgn"

\* Evaluator::restore_tty_signals: the disposition it installs; it is called
\* in the child branch of rsh_launch only, which rsh_execute never reaches
restore_tty_signals == "SigDfl"

\* ------------------------------------------------------------- evaluator
\* the pipe end a Stdio handed to Command as stdin owns: the Command built in
\* run is dropped when run returns, and the descriptor closed with it
StdinEnd(std_in) == IF std_in.kind = "pipe" THEN {<<std_in.pipe, "stdout", "read">>} ELSE {}

\* a faulty run that leaves the write end of the stdout pipe open in the
\* shell: the end-of-file property C33 does not hold of it
run_keeping_write_end(w, commands, std_in, std_out, std_err) ==
  IF commands[1] \in Executables
  THEN [w |-> [w EXCEPT !.procs = Append(@, [argv |-> commands,
                                              stdin |-> std_in,
                                              stdout |-> IF std_out.kind = "piped" THEN FromPipe(Len(w.procs) + 1) ELSE std_out,
                                              stderr |-> IF std_err.kind = "piped"
                                                         THEN [kind |-> "errpipe", path |-> <<>>, pipe |-> Len(w.procs) + 1]
                                                         ELSE std_err,
                                              tty_signals |-> ignore_tty_signals,
                                              state |-> "running"]),
                        !.fx.spawned = Append(@, Len(w.procs) + 1),
                        !.fx.pipes = @ + (IF std_out.kind = "piped" THEN 1 ELSE 0)
                                       + (IF std_err.kind = "piped" THEN 1 ELSE 0),
                        !.fx.held = (@ \ StdinEnd(std_in))
                                      \cup (IF std_out.kind = "piped" THEN {<<Len(w.procs) + 1, "stdout", "read">>,
                                                                                <<Len(w.procs) + 1, "stdout", "write">>} ELSE {})
                                      \cup (IF std_err.kind = "piped" THEN {<<Len(w.procs) + 1, "stderr", "read">>} ELSE {})],
        ok |-> TRUE, pid |-> Len(w.procs) + 1]
  ELSE [w |-> [w EXCEPT !.fx.held = @ \ StdinEnd(std_in)], ok |-> FALSE, pid |-> 0]

\* Evaluator::run: Command::new(commands[0]).args(..).stdin(..).stdout(..).stderr(..).spawn()
\* run sets no pre_exec hook and does not call restore_tty_signals: the child
\* is forked and its program started with the dispositions of the shell, and
\* an ignored signal stays ignored across exec
run(w, commands, std_in, std_out, std_err) ==
  IF commands[1] \in Executables
  THEN [w |-> [w EXCEPT !.procs = Append(@, [argv |-> commands,
                                              stdin |-> std_in,
                                              stdout |-> IF std_out.kind = "piped" THEN FromPipe(Len(w.procs) + 1) ELSE std_out,
                                              stderr |-> IF std_err.kind = "piped"
                                                         THEN [kind |-> "errpipe", path |-> <<>>, pipe |-> Len(w.procs) + 1]
                                                         ELSE std_err,
                                              tty_signals |-> ignore_tty_signals,
                                              state |-> "running"]),
                        !.fx.spawned = Append(@, Len(w.procs) + 1),
                        !.fx.pipes = @ + (IF std_out.kind = "piped" THEN 1 ELSE 0)
                                       + (IF std_err.kind = "piped" THEN 1 ELSE 0),
                        !.fx.held = (@ \ StdinEnd(std_in))
                                      \cup (IF std_out.kind = "piped" THEN {<<Len(w.procs) + 1, "stdout", "read">>} ELSE {})
                                      \cup (IF std_err.kind = "piped" THEN {<<Len(w.procs) + 1, "stderr", "read">>} ELSE {})],
        ok |-> TRUE, pid |-> Len(w.procs) + 1]
  ELSE [w |-> [w EXCEPT !.fx.held = @ \ StdinEnd(std_in)], ok |-> FALSE, pid |-> 0]

\* a faulty "cd" arm that hands the error of rsh_cd to the caller: the cd
\* property C10 does not hold of it
CdArmPropagatesErr(w, r) ==
  [w |-> [w EXCEPT !.cwd = r.cwd], result |-> IF r.ok THEN "Success" ELSE "Err"]

\* the "cd" arm of rsh_execute: the error of rsh_cd is printed and the result
\* is Ok(Status::success()) either way
CdArm(w, r) ==
  [w |-> IF r.ok THEN [w EXCEPT !.cwd = r.cwd] ELSE Report([w EXCEPT !.cwd = r.cwd], "Error: cd"),
   result |-> "Success"]

\* the default arm of rsh_execute in Process::NoPipe: run, then child.wait()
NoPipeArm(r) ==
  IF r.ok THEN [w |-> [r.w EXCEPT !.waiting = r.pid], result |-> "Success"]
  ELSE [w |-> Report(r.w, "Error: spawn"), result |-> "Err"]

\* the match on the first token in rsh_execute (release build)
MatchArg(w, args) ==
  IF args[1] = "cd" THEN CdArm(Builtin(w, "cd"), rsh_cd(w.cwd, IF Len(args) >= 2 THEN args[2] ELSE "./"))
  ELSE IF args[1] = "%logo" THEN [w |-> Builtin(w, "%logo"), result |-> "Success"]
  ELSE IF args[1] = "%fl" THEN [w |-> Builtin(w, "%fl"), result |-> "Success"]
  ELSE IF args[1] = "exit" THEN [w |-> Report(Builtin(w, "exit"), "Bye"), result |-> rsh_exit]
  ELSE IF w.now_process = "NoPipe" THEN NoPipeArm(run(w, args, Inherit, Inherit, Inherit))
  ELSE [w |-> [w EXCEPT !.pipe_commands = Append(@, args)], result |-> "Success"]

\* the body of Evaluator::rsh_execute: no first token is an error, otherwise
\* the history record is written and the first token is matched
rsh_execute_match(w, args) ==
  IF Len(args) = 0 THEN [w |-> w, result |-> "Err"]
  ELSE MatchArg(csv_writer(w, Join(args)), args)

\* a call of rsh_execute noted in fx.calls: its arguments and result, the
\* working directory before and after, whether it printed
NoteCall(w, args, r) ==
  [r EXCEPT !.w.fx.calls = Append(@, [args |-> args, result |-> r.result,
                                       cwd0 |-> w.cwd, cwd1 |-> r.w.cwd,
                                       reported |-> Len(r.w.fx.reports) > Len(w.fx.reports)])]

\* Evaluator::rsh_execute
rsh_execute(w, args) == NoteCall(w, args, rsh_execute_match(w, args))

\* the resolved argument vector of a CommandStatement node
FullCommand(command, args) == <<EvalNode(command)>> \o [i \in 1..Len(args) |-> EvalNode(args[i])]

\* the match on the result of rsh_execute in eval_command: Exit ends the
\* process with code 0, an error is printed
AfterExecute(r) ==
  IF r.result = "Exit" THEN ProcessExit(r.w)
  ELSE IF r.result = "Err" THEN Report(r.w, "command is")
  ELSE r.w

\* Evaluator::eval_command
eval_command(w, expr) == AfterExecute(rsh_execute(w, FullCommand(expr.command, expr.args)))

\* Evaluator::eval_define: prints "var = data"
eval_define(w, define) == Report(w, EvalNode(define.var) \o " = " \o EvalNode(define.data))

\* the three streams a statement starts with
InheritAll == [std_in |-> Inherit, std_out |-> Inherit, std_err |-> Inherit]

\* the outcome of File::open / File::create on `path`, noted in fx.opened;
\* unwrap() panics on Err
Opened(w, path, mode, ok) ==
  [w |-> IF ok
         THEN [w EXCEPT !.fx.opened = Append(@, [path |-> path, mode |-> mode, ok |-> TRUE]),
                        !.files = IF mode = "create" THEN @ \cup {path} ELSE @]
         ELSE Panic([w EXCEPT !.fx.opened = Append(@, [path |-> path, mode |-> mode, ok |-> FALSE])],
                    "File unwrap"),
   path |-> path]

\* File::open succeeds on an existing file, File::create where the directory exists
OpenAt(w, path, mode) == Opened(w, path, mode, IF mode = "open" THEN path \in w.files ELSE Creatable(path))

\* File::open(d).unwrap() / File::create(d).unwrap()
OpenFile(w, name, mode) == OpenAt(w, PathOf(w.cwd, name), mode)

\* eval_redirect_input / _output / _error_output: the destination must be an
\* Identifier, anything else reaches unreachable!()
DestinationIsIdentifier(spec) == spec.destination.type = "Identifier"

\* a faulty binding that keeps the first file a stream was bound to
BindFirstWins(io, type, path) ==
  IF type = "RedirectInput" THEN (IF io.std_in = Inherit THEN [io EXCEPT !.std_in = FromFile(path)] ELSE io)
  ELSE IF type = "RedirectOutput" THEN (IF io.std_out = Inherit THEN [io EXCEPT !.std_out = FromFile(path)] ELSE io)
  ELSE (IF io.std_err = Inherit THEN [io EXCEPT !.std_err = FromFile(path)] ELSE io)

\* *std_in = Stdio::from(file) and its two siblings
Bind(io, type, path) ==
  IF type = "RedirectInput" THEN [io EXCEPT !.std_in = FromFile(path)]
  ELSE IF type = "RedirectOutput" THEN [io EXCEPT !.std_out = FromFile(path)]
  ELSE [io EXCEPT !.std_err = FromFile(path)]

RECURSIVE RedirectLoop(_, _, _)
\* after the file of one specifier is opened: bind the stream, next specifier
AfterOpen(o, type, rest, io) ==
  IF o.w.term # "none" THEN [w |-> o.w, io |-> io]
  ELSE RedirectLoop(o.w, rest, Bind(io, type, o.path))

\* one redirect specifier `d` of eval_redirect_branch
RedirectOne(w, d, rest, io) ==
  IF ~DestinationIsIdentifier(d) THEN [w |-> Panic(Report(w, "redirect error"), "unreachable"), io |-> io]
  ELSE AfterOpen(OpenFile(w, EvalNode(d.destination), IF d.type = "RedirectInput" THEN "open" ELSE "create"),
                 d.type, rest, io)

\* the for loop of Evaluator::eval_redirect_branch
RedirectLoop(w, destinations, io) ==
  IF Len(destinations) = 0 \/ w.term # "none" THEN [w |-> w, io |-> io]
  ELSE IF Head(destinations).type \in {"RedirectInput", "RedirectOutput"}
    THEN RedirectOne(w, Head(destinations), Tail(destinations), io)
  ELSE IF Head(destinations).type = "RedirectErrorOutput"
    THEN RedirectOne(Report(w, "RedirectErrorOutput"), Head(destinations), Tail(destinations), io)
  ELSE RedirectLoop(Report(w, "other"), Tail(destinations), io)

\* Evaluator::eval_redirect_branch
eval_redirect_branch(w, destinations, io) == RedirectLoop(Report(w, "destinations"), destinations, io)

RECURSIVE LaunchLoop(_, _, _, _, _)
\* process.unwrap().stdout.unwrap().into_raw_fd(): a stage that is not the
\* last must have been spawned; its stdout is the next stage's stdin
\* (the Child is dropped at the end of the statement, and with it the read
\* end of the pipe made for the stage's stderr)
AfterPipedRun(r, rest, std_out, std_err) ==
  IF r.ok THEN LaunchLoop([r.w EXCEPT !.fx.held = @ \ {<<r.pid, "stderr", "read">>}],
                          rest, FromPipe(r.pid), std_out, std_err)
  ELSE [w |-> Panic(r.w, "spawn unwrap"), ok |-> FALSE, pid |-> 0]

\* the while-let loop over the stages: every stage but the last is run with
\* piped stdout and stderr; the result of running the last stage is returned;
\* falling out of the loop is unreachable!()
LaunchLoop(w, args, std_in, std_out, std_err) ==
  IF Len(args) = 0 THEN [w |-> Panic(w, "unreachable"), ok |-> FALSE, pid |-> 0]
  ELSE IF Len(args) > 1 THEN AfterPipedRun(run(w, Head(args), std_in, Piped, Piped), Tail(args), std_out, std_err)
  ELSE run(w, Head(args), std_in, std_out, std_err)

\* Evaluator::rsh_pipe_launch
rsh_pipe_launch(w, args, si, stdout, std_err) ==
  LaunchLoop([w EXCEPT !.fx.launched = Len(args)], args, si, stdout, std_err)

\* a Redirect stage: its resolved command is pushed on pipe_commands
PushRedirect(w, redirect) ==
  [w EXCEPT !.pipe_commands = Append(@, FullCommand(get_lhs(redirect.command), get_rhs(redirect.command)))]

RECURSIVE CollectLoop(_, _, _)
\* after the destinations of a Redirect stage are opened: next stage
AfterBranch(r, rest) == CollectLoop(r.w, rest, r.io)

\* the for loop of Evaluator::rsh_pipe_launch_from_node: a CommandStatement
\* goes through eval_command, a Redirect is pushed on pipe_commands and its
\* destinations are opened
CollectLoop(w, args, io) ==
  IF Len(args) = 0 \/ w.term # "none" THEN [w |-> w, io |-> io]
  ELSE IF Head(args).type = "CommandStatement" THEN CollectLoop(eval_command(w, Head(args)), Tail(args), io)
  ELSE IF Head(args).type = "Redirect"
    THEN AfterBranch(eval_redirect_branch(PushRedirect(w, Head(args)), Head(args).destination, io), Tail(args))
  ELSE CollectLoop(Report(w, "I don't know"), Tail(args), io)

\* the launch loop of rsh_pipe_launch_from_node over the collected pipe_commands
LaunchCollected(c) ==
  IF c.w.term # "none" THEN [w |-> c.w, ok |-> FALSE, pid |-> 0]
  ELSE LaunchLoop([c.w EXCEPT !.fx.launched = Len(c.w.pipe_commands)],
                  c.w.pipe_commands, c.io.std_in, c.io.std_out, c.io.std_err)

\* Evaluator::rsh_pipe_launch_from_node
rsh_pipe_launch_from_node(w, args) == LaunchCollected(CollectLoop(w, args, InheritAll))

\* a faulty end of eval_pipeline that leaves the mode and the collected
\* stages as they are: the carry-over property C34 does not hold of it
EndPipelineKeepingStages(w) == w

\* the end of Evaluator::eval_pipeline: pipe_commands.clear(), switch to NoPipe
EndPipeline(w) == [w EXCEPT !.pipe_commands = <<>>, !.now_process = "NoPipe"]

\* the match on the result of rsh_pipe_launch_from_node: on Ok the shell
\* blocks in child.wait() on the returned child, which is the last stage, and
\* EndPipeline runs when the wait returns; on Err the error is printed
WaitLast(r) ==
  IF r.w.term # "none" THEN r.w
  ELSE IF r.ok THEN [r.w EXCEPT !.waiting = r.pid]
  ELSE EndPipeline(Report(r.w, "Error: spawn"))

\* Evaluator::eval_pipeline
eval_pipeline(w, pipeline) ==
  WaitLast(rsh_pipe_launch_from_node([w EXCEPT !.now_process = "Pipe", !.pipe_commands = <<>>],
                                     pipeline.commands))

\* the match on the result of rsh_pipe_launch in eval_redirect
WaitChild(r) ==
  IF r.w.term # "none" THEN r.w
  ELSE IF r.ok THEN [r.w EXCEPT !.waiting = r.pid]
  ELSE Report(r.w, "Error:> spawn")

\* eval_redirect after eval_redirect_branch: the one command is launched
LaunchRedirected(b, full_command) ==
  IF b.w.term # "none" THEN b.w
  ELSE WaitChild(rsh_pipe_launch(b.w, <<full_command>>, b.io.std_in, b.io.std_out, b.io.std_err))

\* Evaluator::eval_redirect
eval_redirect(w, input) ==
  LaunchRedirected(eval_redirect_branch(w, input.destination, InheritAll),
                   FullCommand(get_lhs(input.command), get_rhs(input.command)))

\* a faulty eval_exec_script that opens the file and does not execute its
\* contents: the property C20 does not hold of it
ReadScriptOnly(w, path) ==
  IF path \in w.files THEN w
  ELSE Report(w, "File not found")

\* eval_exec_script once the file name is resolved: when the file can be
\* read, Rsh::execute_commands is called on its contents
ReadScript(w, path) ==
  IF path \in w.files THEN [w EXCEPT !.call = TRUE, !.script = Contents(path)]
  ELSE Report(w, "File not found")

\* Evaluator::eval_exec_script: the file is opened relative to the working directory
eval_exec_script(w, script) == ReadScript(w, PathOf(w.cwd, EvalNode(script.exec_script)))

\* a faulty loop body that prints the text of a comment: the property C22
\* does not hold of it
eval_statement_printing_comments(w, s) ==
  IF s.type = "CommandStatement" THEN eval_command(w, s)
  ELSE IF s.type = "Define" THEN eval_define(w, s)
  ELSE IF s.type = "ExecScript" THEN eval_exec_script(w, s)
  ELSE IF s.type = "Pipeline" THEN eval_pipeline(w, s)
  ELSE IF s.type = "Redirect" THEN eval_redirect(w, s)
  ELSE IF s.type = "Comment" THEN Report(w, s.comment)
  ELSE Report(w, "I don't know")

\* one iteration of the for loop of Evaluator::eval_compound_statement
eval_statement(w, s) ==
  IF s.type = "CommandStatement" THEN eval_command(w, s)
  ELSE IF s.type = "Define" THEN eval_define(w, s)
  ELSE IF s.type = "ExecScript" THEN eval_exec_script(w, s)
  ELSE IF s.type = "Pipeline" THEN eval_pipeline(w, s)
  ELSE IF s.type = "Redirect" THEN eval_redirect(w, s)
  ELSE IF s.type = "Comment" THEN w
  ELSE Report(w, "I don't know")

\* ----------------------------------------------------------- control flow
\* the Evaluator fields are kept in the frame of the call that owns them
SaveEvaluator(w) ==
  IF w.stack = <<>> THEN w
  ELSE [w EXCEPT !.stack[Len(w.stack)].ev =
                    [now_process |-> w.now_process, pipe_commands |-> w.pipe_commands]]

\* a faulty execute_commands that leaves its command as it is: the property
\* C13 does not hold of it
KeepCommand(w, depth) == w

\* *command = String::new(): the String of the outermost call is the buffer
\* of rsh_loop, that of a nested call the contents of a script
ClearCommand(w, depth) == IF depth = 0 THEN [w EXCEPT !.buffer = ""] ELSE w

\* execute_commands after the history record: on a successful parse a new
\* Evaluator evaluates the statements; on a failure the command is cleared,
\* the message printed and 1 returned (to eval_exec_script when the call is
\* nested, whose statement then has returned)
Parsed(w, command) ==
  IF command.ok
  THEN [w EXCEPT !.stack = Append(@, [todo |-> command.stmts, ev |-> NewEvaluator,
                                       all |-> command.stmts, done |-> <<>>])]
  ELSE [Report(ClearCommand(w, Len(w.stack)), "Failed to parse input")
          EXCEPT !.ret = 1, !.fx.returned = (Len(w.stack) > 0)]

\* Rsh::execute_commands up to the evaluation of the first statement
execute_commands(w, command) == Parsed([csv_writer(w, command.text) EXCEPT !.parsed = command], command)

RECURSIVE Unwind(_)
\* the for loop of eval_compound_statement ends: evaluate returns 0 and
\* execute_commands clears its command and returns the 0 to its caller
Unwind(w) ==
  IF w.stack # <<>> /\ w.stack[Len(w.stack)].todo = <<>>
  THEN Unwind(ClearCommand([w EXCEPT !.stack = SubSeq(@, 1, Len(@) - 1), !.ret = 0], Len(w.stack) - 1))
  ELSE w

\* what follows the evaluation of a statement: nothing when the process has
\* ended or is blocked in wait; the nested execute_commands for a script that
\* was read; then the next iteration or the return
Continue(w) ==
  IF w.term # "none" \/ w.waiting # 0 THEN SaveEvaluator(w)
  ELSE IF w.call THEN Unwind(execute_commands(SaveEvaluator(w), ParseTable[w.script]))
  ELSE Unwind([SaveEvaluator(w) EXCEPT !.fx.returned = TRUE])

Commit(w) ==
  /\ cwd' = w.cwd
  /\ files' = w.files
  /\ history' = w.history
  /\ procs' = w.procs
  /\ stack' = w.stack
  /\ waiting' = w.waiting
  /\ term' = w.term
  /\ code' = w.code
  /\ ret' = w.ret
  /\ buffer' = w.buffer
  /\ parsed' = w.parsed
  /\ fx' = w.fx
  /\ UNCHANGED <<log, editor>>

\* a faulty loop that takes the statements from the end: the order property
\* C11 does not hold of it
NextStatementFromEnd == stack[Len(stack)].todo[Len(stack[Len(stack)].todo)]

\* the statement the evaluator takes next
NextStatement == Head(stack[Len(stack)].todo)

\* rsh_loop: the line editor submits a line and execute_commands is called
Submit(line) ==
  /\ term = "none"
  /\ stack = <<>>
  /\ nlines < MaxLines
  /\ nlines' = nlines + 1
  /\ Commit(Unwind(execute_commands([World EXCEPT !.buffer = line.text,
                                                     !.fx = NoEffects(CompoundStatement(line.stmts), cwd)],
                                      line)))

\* the evaluator takes the next statement of the innermost compound statement
EvalStatement ==
  /\ term = "none"
  /\ waiting = 0
  /\ stack # <<>>
  /\ Commit(Continue(eval_statement([World EXCEPT !.stack[Len(stack)].todo = Tail(@),
                                                  !.stack[Len(stack)].done = Append(@, NextStatement),
                                                  !.fx = NoEffects(NextStatement, cwd)],
                                    NextStatement)))
  /\ UNCHANGED nlines

\* the continuation of the statement whose wait returned
AfterWait(w) == IF w.fx.stmt.type = "Pipeline" THEN EndPipeline(w) ELSE w

\* Child::wait returns: the child the shell is blocked on has terminated
WaitReturn ==
  /\ term = "none"
  /\ waiting # 0
  /\ procs[waiting].state = "terminated"
  /\ Commit(Continue(AfterWait([World EXCEPT !.waiting = 0])))
  /\ UNCHANGED nlines

\* a child process terminates
ChildExit(pid) ==
  /\ procs[pid].state = "running"
  /\ procs' = [procs EXCEPT ![pid].state = "terminated"]
  /\ UNCHANGED <<cwd, files, history, stack, waiting, term, code, nlines, ret, buffer, parsed, fx, log, editor>>

Next ==
  \/ \E line \in Lines : Submit(line)
  \/ EvalStatement
  \/ WaitReturn
  \/ \E pid \in 1..Len(procs) : ChildExit(pid)

Spec == Init /\ [][Next]_vars

\* ------------------------------------------------- the parser on its own
\* The parser functions are pure: they are applied here to texts drawn from
\* bounded sets, the way the tests of parse.rs call them directly.

\* most stages of a generated pipeline text
MaxStages == 3

\* most arguments of a command of a generated pipeline text
MaxArgs == 2

RECURSIVE PipelineText(_, _)
\* the text of a pipeline: every command is its name and its arguments
\* joined by one space, and the commands are joined by the separator
PipelineText(stages, sep) ==
  IF Len(stages) = 1 THEN Join(<<stages[1].name>> \o stages[1].args)
  ELSE Join(<<stages[1].name>> \o stages[1].args) \o sep \o PipelineText(Tail(stages), sep)

\* pipelines of 2..MaxStages commands with 0..MaxArgs bareword arguments
\* each, with their text, computed once; the words are those of the tests
\* of parse.rs, all different: `c1 a1 a2 | c2 b1 | c3`
PipelineInputs ==
  { [stages |-> [i \in 1..Len(counts) |->
                   [name |-> "c" \o <<"1", "2", "3", "4", "5">>[i],
                    args |-> [j \in 1..counts[i] |->
                                <<"a", "b", "c", "d", "e">>[i] \o <<"1", "2", "3", "4", "5">>[j]]]],
     text |-> PipelineText([i \in 1..Len(counts) |->
                              [name |-> "c" \o <<"1", "2", "3", "4", "5">>[i],
                               args |-> [j \in 1..counts[i] |->
                                           <<"a", "b", "c", "d", "e">>[i] \o <<"1", "2", "3", "4", "5">>[j]]]],
                           sep)] :
      counts \in UNION { [1..n -> 0..MaxArgs] : n \in 2..MaxStages },
      sep \in {" | ", "|", " |\n"} }

\* most statements of a generated compound text
MaxStatements == 2

RECURSIVE CompoundText(_, _, _)
\* the text of a compound statement: the texts of its statements with the
\* separator between them and the trailing separator at the end
CompoundText(statements, sep, trailing) ==
  IF Len(statements) = 1 THEN statements[1].text \o trailing
  ELSE statements[1].text \o sep \o CompoundText(Tail(statements), sep, trailing)

\* compound texts of 1..MaxStatements statements, a command, a define, a
\* pipeline or a redirect each, separated by `;`, a line break or both, with
\* or without a trailing separator; with the nodes of the statements, and
\* computed once
CompoundInputs ==
  { [nodes |-> [i \in 1..Len(statements) |-> statements[i].node],
     text |-> CompoundText(statements, sep, trailing)] :
      statements \in UNION { [1..k -> { [text |-> "echo arg1", node |-> Cmd("echo", <<"arg1">>)],
                                        [text |-> "var=\"value\"",
                                         node |-> Define(Identifier("var"), Identifier("value"))],
                                        [text |-> "ls|cat",
                                         node |-> Pipeline(<<Cmd("ls", <<>>), Cmd("cat", <<>>)>>)],
                                        [text |-> "ls > f",
                                         node |-> Redirect(Cmd("ls", <<>>), <<RedirectOutput(Identifier("f"))>>)] }] :
                              k \in 1..MaxStatements },
      sep \in {";", "\n", ";\n"},
      trailing \in {"", ";", "\n"} }

\* the texts the parser functions are applied to: the generated pipelines,
\* `cmd OP file` for every redirect operator of the grammar, and the inputs
\* of the tests of parse.rs
\* the ways test_parse_command_with_backslash ends a line that goes on: a
\* backslash, spaces or none, a '#' comment or none, and the line break
BackslashTails == {"\\\n", "\\ \n", "\\  \n", "\\#comment\n", "\\ #comment\n", "\\  #comment\n"}

\* a command whose argument list goes on after each of the continuations
\* given: the text, and the arguments it holds
BackslashInputs ==
  {[args |-> <<"arg1", "arg2">>, text |-> "echo arg1 " \o t \o indent \o "arg2"] :
     t \in BackslashTails, indent \in {"", "     "}}
    \cup {[args |-> <<"arg1", "arg2", "arg3">>,
           text |-> "echo arg1 " \o t \o "     arg2 \\\n         arg3"] : t \in BackslashTails}

\* filenames as in test_parse_filename, and filenames holding the characters
\* '-', '_' and '/'
Filenames == {"filename", "file.name", ".configfile", "my-file.txt", "out_1.txt", "a/b.txt"}

ParseTexts ==
  {p.text : p \in PipelineInputs}
    \cup {Join(<<p.stages[1].name>> \o p.stages[1].args) : p \in PipelineInputs}
    \cup {"cmd < file", "cmd > file", "cmd >> file", "cmd 2> file", "cmd 2>> file"}
    \cup {"cmd < file1 < file2", "cmd > file1 > file2", "cmd < input > output",
          "echo \"Hello, World!\" > sorted.txt | cat sorted.txt"}
    \cup {"echo \"a b\"", "echo 'a b'", "echo \"\"", "echo ''", "echo \"a;b #c\"", "echo 'a;b #c'"}
    \cup {b.text : b \in BackslashInputs}
    \cup {"./a", "./a > f", "./a | cat", "#c", "x=\"v\""}
    \cup {"ls > " \o name : name \in Filenames} \cup {"./" \o name : name \in Filenames}
    \cup {"constant", "a\tb", "say\"hi\" x", "it's", "a;b", "a=b", "a#b", "a\\b", "a<b", "a>b", "a\nb"}

ParseInit ==
  /\ parsed \in {Input(fn, text) : fn \in {"parse_pipeline", "parse_redirect", "parse_node",
                                           "parse_command", "parse_command_with_backslash",
                                           "parse_constant"},
                                   text \in ParseTexts}
                 \cup {Input("parse_node", c.text) : c \in CompoundInputs}
  /\ cwd = StartDir
  /\ files = StartFiles
  /\ history = <<>>
  /\ procs = <<>>
  /\ stack = <<>>
  /\ waiting = 0
  /\ term = "none"
  /\ code = -1
  /\ nlines = 0
  /\ ret = 0
  /\ buffer = ""
  /\ fx = NoEffects(Comment(""), StartDir)
  /\ log = NoLog
  /\ editor = NoEditor

\* Parse::parse_pipeline(input)
CallParsePipeline ==
  /\ ~parsed.done
  /\ parsed.fn = "parse_pipeline"
  /\ parsed' = Applied("parse_pipeline", parsed.text, parse(parse_pipeline, parsed.text))
  /\ UNCHANGED <<cwd, files, history, procs, stack, waiting, term, code, nlines, ret, buffer, fx, log, editor>>

\* Parse::parse_redirect(input)
CallParseRedirect ==
  /\ ~parsed.done
  /\ parsed.fn = "parse_redirect"
  /\ parsed' = Applied("parse_redirect", parsed.text, parse(parse_redirect, parsed.text))
  /\ UNCHANGED <<cwd, files, history, procs, stack, waiting, term, code, nlines, ret, buffer, fx, log, editor>>

\* Parse::parse_node(input), that is Parse::parse_compound_statement(input)
CallParseNode ==
  /\ ~parsed.done
  /\ parsed.fn = "parse_node"
  /\ parsed' = Applied("parse_node", parsed.text, parse_node(parsed.text))
  /\ UNCHANGED <<cwd, files, history, procs, stack, waiting, term, code, nlines, ret, buffer, fx, log, editor>>

\* a faulty call of parse_command that skips tabs, not spaces, in front of
\* an argument: the property C26 does not hold of it
CallParseCommandSkippingTabs ==
  /\ ~parsed.done
  /\ parsed.fn = "parse_command"
  /\ parsed' = Applied("parse_command", parsed.text,
                       parse(map(permutation(<<parse_constant,
                                               opt(many1(permutation(<<take_while({"\t"}),
                                                                       alt(<<parse_identifier, parse_constant>>)>>)))>>),
                                 "CommandStatement"),
                             parsed.text))
  /\ UNCHANGED <<cwd, files, history, procs, stack, waiting, term, code, nlines, ret, buffer, fx, log, editor>>

\* Parse::parse_command(input)
CallParseCommand ==
  /\ ~parsed.done
  /\ parsed.fn = "parse_command"
  /\ parsed' = Applied("parse_command", parsed.text, parse(parse_command, parsed.text))
  /\ UNCHANGED <<cwd, files, history, procs, stack, waiting, term, code, nlines, ret, buffer, fx, log, editor>>

\* Parse::parse_command_with_backslash(input)
CallParseCommandWithBackslash ==
  /\ ~parsed.done
  /\ parsed.fn = "parse_command_with_backslash"
  /\ parsed' = Applied("parse_command_with_backslash", parsed.text,
                       parse(parse_command_with_backslash, parsed.text))
  /\ UNCHANGED <<cwd, files, history, procs, stack, waiting, term, code, nlines, ret, buffer, fx, log, editor>>

\* Parse::parse_constant(input)
CallParseConstant ==
  /\ ~parsed.done
  /\ parsed.fn = "parse_constant"
  /\ parsed' = Applied("parse_constant", parsed.text, parse(parse_constant, parsed.text))
  /\ UNCHANGED <<cwd, files, history, procs, stack, waiting, term, code, nlines, ret, buffer, fx, log, editor>>

ParseNext ==
  \/ CallParsePipeline
  \/ CallParseRedirect
  \/ CallParseNode
  \/ CallParseCommand
  \/ CallParseCommandWithBackslash
  \/ CallParseConstant

ParseSpec == ParseInit /\ [][ParseNext]_vars

\* ------------------------------------- children that end on end-of-file
\* the input of child pid is at end-of-file: a child that reads a pipe sees
\* the end once the stage writing to it has terminated and no write end of
\* the pipe is open in the shell
ReadsEndOfFile(pid) ==
  procs[pid].stdin.kind = "pipe"
    => /\ procs[procs[pid].stdin.pipe].state = "terminated"
       /\ <<procs[pid].stdin.pipe, "stdout", "write">> \notin fx.held

\* a child whose program ends on end-of-file of its input terminates
EofChildExit(pid) == ReadsEndOfFile(pid) /\ ChildExit(pid)

EofNext ==
  \/ \E line \in Lines : Submit(line)
  \/ EvalStatement
  \/ WaitReturn
  \/ \E pid \in 1..Len(procs) : EofChildExit(pid)

\* the session with children that end on end-of-file: a child that can
\* terminate does, and a wait whose child has terminated returns
EofSpec ==
  /\ Init
  /\ [][EofNext]_vars
  /\ WF_vars(WaitReturn)
  /\ WF_vars(\E pid \in 1..Len(procs) : EofChildExit(pid))

\* ------------------------------------------------- scripts that run scripts
\* most execute_commands calls nested in one another
MaxDepth == 4

\* lines that run a script: one that runs another script, one that runs
\* itself, scripts of plain statements, and lines without a script
ScriptLines ==
  {Line(text, parse_node(text)) :
     text \in {"./outer.rsh", "./loop.rsh", "./two.rsh", "./set.rsh", "./missing.rsh", "./bad.rsh; ls", "ls"}}

\* the evaluator takes the next statement while fewer than MaxDepth
\* execute_commands calls are in progress
EvalNested == Len(stack) < MaxDepth /\ EvalStatement

ScriptNext ==
  \/ \E line \in ScriptLines : Submit(line)
  \/ EvalNested
  \/ WaitReturn
  \/ \E pid \in 1..Len(procs) : ChildExit(pid)

ScriptSpec == Init /\ [][ScriptNext]_vars

\* ------------------------------------------- history file (log_maneger.rs)
\* most records written to the history file
MaxRecords == 2

\* commands execute_commands and rsh_execute hand to csv_writer: a line, a
\* line holding a comma, and the contents of a script of two lines
LogCommands == {"ls", "cd /tmp", "echo a,b", "cd /tmp\nls"}

RECURSIVE SplitLoop(_, _, _, _)
\* str::split(sep): the pieces between the separators, empty pieces included
SplitLoop(s, sep, piece, acc) ==
  IF s = "" THEN Append(acc, piece)
  ELSE IF SubSeq(s, 1, 1) = sep THEN SplitLoop(Tail(s), sep, "", Append(acc, piece))
  ELSE SplitLoop(Tail(s), sep, piece \o SubSeq(s, 1, 1), acc)

RECURSIVE ReadLoop(_, _)
\* the for loop of csv_reader over the lines of the file: line.split(',')
\* gives the record of a line of two parts, nothing for any other line
ReadLoop(lines, records) ==
  IF lines = <<>> THEN records
  ELSE LET parts == SplitLoop(Head(lines), ",", "", <<>>)
       IN ReadLoop(Tail(lines),
                   IF Len(parts) = 2
                   THEN Append(records, [command |-> parts[1], time |-> parts[2]])
                   ELSE records)

\* csv_reader: the records of the file at path; BufRead::lines on a text
\* without carriage returns gives the pieces between the line feeds, without
\* the empty piece after a final line feed
csv_reader(file) ==
  LET pieces == SplitLoop(file, "\n", "", <<>>)
  IN ReadLoop(IF pieces[Len(pieces)] = "" THEN SubSeq(pieces, 1, Len(pieces) - 1) ELSE pieces, <<>>)

\* the history file as it is created
LogInit ==
  /\ log = NoLog
  /\ cwd = StartDir
  /\ files = StartFiles
  /\ history = <<>>
  /\ procs = <<>>
  /\ stack = <<>>
  /\ waiting = 0
  /\ term = "none"
  /\ code = -1
  /\ nlines = 0
  /\ ret = 0
  /\ buffer = ""
  /\ parsed = Input("parse_node", "")
  /\ fx = NoEffects(Comment(""), StartDir)
  /\ editor = NoEditor

\* csv_writer(command, time, path): the file is opened for appending and
\* writeln!(file, "{},{}", command, time) adds one line to it
CsvWrite(command, time) ==
  /\ Len(log.written) < MaxRecords
  /\ log' = [log EXCEPT !.file = @ \o command \o "," \o time \o "\n",
                         !.written = Append(@, [command |-> command, time |-> time])]
  /\ UNCHANGED <<cwd, files, history, procs, stack, waiting, term, code, nlines, ret, buffer, parsed, fx, editor>>

\* csv_reader(path)
CsvRead ==
  /\ log.reads < MaxRecords
  /\ log' = [log EXCEPT !.read = csv_reader(log.file), !.reads = @ + 1]
  /\ UNCHANGED <<cwd, files, history, procs, stack, waiting, term, code, nlines, ret, buffer, parsed, fx, editor>>

LogNext ==
  \/ \E command \in LogCommands : \E time \in {"2024-01-01 10:00:00", "2024-01-01 10:00:01"} :
        CsvWrite(command, time)
  \/ CsvRead

LogSpec == LogInit /\ [][LogNext]_vars

\* ------------------------------------------ line editor (rsh_loop, Input)
\* most key events in one line
MaxKeys == 5

\* char::len_utf8 of the characters that are typed: an ASCII letter, and
\* characters encoded in 2, 3 and 4 bytes
Utf8Len(c) == IF c = "U+00E9" THEN 2 ELSE IF c = "U+3042" THEN 3 ELSE IF c = "U+1F600" THEN 4 ELSE 1

\* history_database and command_database as read on a Tab press
HistoryDatabase == << <<"l", "s", " ", "-", "l">> >>

CommandDatabase == << <<"l", "s">>, <<"c", "a", "t">> >>

RECURSIVE ByteLen(_)
\* String::len: the length in bytes
ByteLen(buf) == IF buf = <<>> THEN 0 ELSE Utf8Len(Head(buf)) + ByteLen(Tail(buf))

\* String::is_char_boundary(i)
IsCharBoundary(buf, i) == \E n \in 0..Len(buf) : ByteLen(SubSeq(buf, 1, n)) = i

\* the characters in front of the boundary i
CharsBefore(buf, i) == CHOOSE n \in 0..Len(buf) : ByteLen(SubSeq(buf, 1, n)) = i

\* a panic ends the shell
EditorPanic(e, what) == [e EXCEPT !.panic = what]

\* usize subtraction x - k: with overflow checks (debug build) a result below
\* zero panics; without (release build) it wraps, and the wrapped value
\* 2^64 + x - k is written x - k, a negative number standing for it
CheckedSub(e, field, k, checks) ==
  IF e.panic # "none" THEN e
  ELSE IF e[field] >= 0 /\ e[field] < k /\ checks THEN EditorPanic(e, "underflow")
  ELSE [e EXCEPT ![field] = @ - k]

\* String::insert(cursor_x, c): panics unless cursor_x is a char boundary
InsertAtCursor(e, c) ==
  IF ~IsCharBoundary(e.buffer, e.cursor_x) THEN EditorPanic(e, "insert")
  ELSE [e EXCEPT !.buffer = SubSeq(@, 1, CharsBefore(@, e.cursor_x)) \o <<c>>
                              \o SubSeq(@, CharsBefore(@, e.cursor_x) + 1, Len(@))]

\* String::remove(i): panics unless a character starts at byte i
RemoveAt(e, i) ==
  IF ~IsCharBoundary(e.buffer, i) \/ i >= ByteLen(e.buffer) THEN EditorPanic(e, "remove")
  ELSE [e EXCEPT !.buffer = SubSeq(@, 1, CharsBefore(@, i)) \o SubSeq(@, CharsBefore(@, i) + 2, Len(@))]

\* Vec::remove(i) on the graphemes of the buffer (every typed character is a
\* grapheme of its own): panics when i is not an index of the vector
RemoveGrapheme(e, i) ==
  IF e.panic # "none" THEN e
  ELSE IF i < 0 \/ i >= Len(e.buffer) THEN EditorPanic(e, "remove")
  ELSE [e EXCEPT !.buffer = SubSeq(@, 1, i) \o SubSeq(@, i + 2, Len(@))]

\* KeyCode::Char(c): char_count += 1, the character is inserted at cursor_x
\* and cursor_x moves by 1 (ASCII) or by the bytes of the character
AfterInsert(e, n) == IF e.panic # "none" THEN e ELSE [e EXCEPT !.cursor_x = @ + n]

KeyChar(e, c) == AfterInsert(InsertAtCursor([e EXCEPT !.char_count = @ + 1], c), Utf8Len(c))

\* KeyCode::Char(' '): the space is inserted, then the counters move
AfterSpace(e) ==
  IF e.panic # "none" THEN e
  ELSE [e EXCEPT !.pushed_tab = FALSE, !.cursor_x = @ + 1, !.char_count = @ + 1]

KeySpace(e) == AfterSpace(InsertAtCursor(e, " "))

\* the grapheme at char_count - 1 is removed: the index char_count - 1 is a
\* usize, and cursor_x -= 2
BackspaceGrapheme(e, checks) ==
  IF e.char_count = 0 /\ checks THEN EditorPanic(e, "underflow")
  ELSE CheckedSub(RemoveGrapheme(e, e.char_count - 1), "cursor_x", 2, checks)

\* KeyCode::Backspace: nothing unless char_count <= buffer.len() and
\* cursor_x > 0; the character in front of the cursor is removed with
\* String::remove when cursor_x - 1 is a char boundary, else as a grapheme;
\* then cursor_x -= 1 and char_count -= 1
KeyBackspace(e, checks) ==
  IF ~(e.char_count <= ByteLen(e.buffer) /\ e.cursor_x # 0) THEN e
  ELSE CheckedSub(CheckedSub(IF IsCharBoundary(e.buffer, e.cursor_x - 1)
                               THEN RemoveAt(e, e.cursor_x - 1)
                               ELSE BackspaceGrapheme(e, checks),
                             "cursor_x", 1, checks),
                  "char_count", 1, checks)

\* starts_with
StartsWith(candidate, search) ==
  Len(candidate) >= Len(search) /\ SubSeq(candidate, 1, Len(search)) = search

\* rsh_get_command_database: the matches of the history, then of the commands
rsh_get_command_database(search) ==
  SelectSeq(HistoryDatabase, LAMBDA h : StartsWith(h, search))
    \o SelectSeq(CommandDatabase, LAMBDA c : StartsWith(c, search))

\* filtered_commands[*counter]: the index must be inside the vector
IndexCandidates(e, filtered) ==
  IF e.tab_counter >= Len(filtered)
  THEN EditorPanic([e EXCEPT !.found = [result |-> "panic", n |-> Len(filtered), index |-> e.tab_counter]], "index")
  ELSE [e EXCEPT !.buffer = filtered[e.tab_counter + 1],
                 !.found = [result |-> "Ok", n |-> Len(filtered), index |-> e.tab_counter]]

\* rsh_char_search: Err without a candidate; else the counter is lowered by
\* one when it is not below the number of candidates, and is the index
rsh_char_search(e, filtered) ==
  IF Len(filtered) = 0 THEN [e EXCEPT !.found = [result |-> "Err", n |-> 0, index |-> e.tab_counter]]
  ELSE IF Len(filtered) <= e.tab_counter THEN IndexCandidates([e EXCEPT !.tab_counter = @ - 1], filtered)
  ELSE IndexCandidates(e, filtered)

\* the end of the Tab arm
AfterSearch(e) ==
  IF e.panic # "none" THEN e
  ELSE [e EXCEPT !.cursor_x = ByteLen(e.buffer), !.char_count = Len(e.buffer),
                 !.pushed_tab = TRUE, !.tab_counter = @ + 1]

\* the search string of a Tab press: the buffer as it was at the first Tab
SearchString(e) == IF e.pushed_tab THEN e ELSE [e EXCEPT !.stack_buffer = e.buffer]

\* KeyCode::Tab
KeyTab(e) == AfterSearch(rsh_char_search(SearchString(e), rsh_get_command_database(SearchString(e).stack_buffer)))

\* rsh_loop enters Mode::Input with an empty buffer
EditorInit ==
  /\ editor = NoEditor
  /\ log = NoLog
  /\ cwd = StartDir
  /\ files = StartFiles
  /\ history = <<>>
  /\ procs = <<>>
  /\ stack = <<>>
  /\ waiting = 0
  /\ term = "none"
  /\ code = -1
  /\ nlines = 0
  /\ ret = 0
  /\ buffer = ""
  /\ parsed = Input("parse_node", "")
  /\ fx = NoEffects(Comment(""), StartDir)

\* one key event of the inner loop of Mode::Input
Key(e) ==
  /\ editor.panic = "none"
  /\ editor.keys < MaxKeys
  /\ editor' = [e EXCEPT !.keys = @ + 1]
  /\ UNCHANGED <<cwd, files, history, procs, stack, waiting, term, code, nlines, ret, buffer, parsed, fx, log>>

EditorNext ==
  \/ \E c \in {"l", "U+00E9", "U+3042", "U+1F600"} : Key(KeyChar(editor, c))
  \/ Key(KeySpace(editor))
  \/ \E checks \in BOOLEAN : Key(KeyBackspace(editor, checks))
  \/ Key(KeyTab(editor))

EditorSpec == EditorInit /\ [][EditorNext]_vars

\* ------------------------------------------ evaluator on a syntax tree
\* the nodes CommandStatement::new accepts as arguments: Identifier nodes and
\* nodes of other kinds
ArgumentNodes ==
  {Identifier("/tmp"), Identifier("in.txt"), Comment("x"),
   Define(Identifier("x"), Identifier("1")), ExecScript(Identifier("set.rsh"))}

\* Evaluator::new(rsh).evaluate(CompoundStatement::new(vec![statement])) for a
\* CommandStatement built with CommandStatement::new from a command name and
\* up to MaxArgs argument nodes
EvalInit ==
  /\ \E c \in {"ls", "cat", "cd"} : \E k \in 0..MaxArgs : \E args \in [1..k -> ArgumentNodes] :
        stack = <<[todo |-> <<CommandStatement(Identifier(c), args)>>, ev |-> NewEvaluator,
                   all |-> <<CommandStatement(Identifier(c), args)>>, done |-> <<>>]>>
  /\ cwd = StartDir
  /\ files = StartFiles
  /\ history = <<>>
  /\ procs = <<>>
  /\ waiting = 0
  /\ term = "none"
  /\ code = -1
  /\ nlines = 0
  /\ ret = 0
  /\ buffer = ""
  /\ parsed = Input("parse_node", "")
  /\ fx = NoEffects(Comment(""), StartDir)
  /\ log = NoLog
  /\ editor = NoEditor

EvalNext ==
  \/ EvalStatement
  \/ WaitReturn
  \/ \E pid \in 1..Len(procs) : ChildExit(pid)

EvalSpec == EvalInit /\ [][EvalNext]_vars

\* ------------------------------------------------------------ properties
\* the first token of a pipeline stage or of a single-stage statement
StageToken(node) == EvalNode(get_lhs(IF node.type = "Redirect" THEN node.command ELSE node))

\* the exit built-in handler has run in the current statement
ExitRan == \E i \in 1..Len(fx.builtins) : fx.builtins[i] = "exit"

\* C1: no statement other than the exit built-in ends the shell process:
\* whenever the process has ended, it ended in the exit built-in with code 0
\* (otherwise control is in, or on its way back to, the interactive loop).
C1_OnlyExitEndsTheShell ==
  term # "none" => (term = "exit" /\ code = 0 /\ ExitRan)

\* C2: when the evaluation of a pipeline has returned to the statement loop,
\* every child process spawned for it has terminated.
C2_PipelineReturnsAfterAllStages ==
  (fx.stmt.type = "Pipeline" /\ fx.returned)
    => \A i \in 1..Len(fx.spawned) : procs[fx.spawned[i]].state = "terminated"

\* a stage that is handed to the launch loop and whose program cannot be launched
Unlaunchable(node) ==
  /\ StageToken(node) \notin Executables
  /\ node.type = "CommandStatement" => StageToken(node) \notin Builtins

\* C3: when the program of some stage of a pipeline cannot be launched, at any
\* position, the failure is reported and the shell process keeps running.
C3_LaunchFailureIsConfined ==
  (/\ fx.stmt.type = "Pipeline"
   /\ fx.launched >= 0
   /\ \E i \in 1..Len(fx.stmt.commands) : Unlaunchable(fx.stmt.commands[i]))
    => (term = "none" /\ \E k \in 1..Len(fx.reports) : fx.reports[k] = "Error: spawn")

\* C4: when the target of a redirect cannot be opened or created, the shell
\* process keeps running.
C4_RedirectFailureIsConfined ==
  (\E i \in 1..Len(fx.opened) : ~fx.opened[i].ok) => term = "none"

\* the input redirects of a pipeline: <<stage, specifier>> positions
InputSpecs(p) ==
  {x \in (1..Len(p.commands)) \X (1..2) :
     /\ p.commands[x[1]].type = "Redirect"
     /\ x[2] <= Len(p.commands[x[1]].destination)
     /\ p.commands[x[1]].destination[x[2]].type = "RedirectInput"}

OutputSpecs(p) ==
  {x \in (1..Len(p.commands)) \X (1..2) :
     /\ p.commands[x[1]].type = "Redirect"
     /\ x[2] <= Len(p.commands[x[1]].destination)
     /\ p.commands[x[1]].destination[x[2]].type = "RedirectOutput"}

\* the last position of a non-empty set of positions
LastSpec(xs) == CHOOSE x \in xs : \A y \in xs : y[1] < x[1] \/ (y[1] = x[1] /\ y[2] <= x[2])

\* the file a set of specifiers binds, the inherited stream when there is none
Bound(p, xs) ==
  IF xs = {} THEN Inherit
  ELSE FromFile(PathOf(cwd, EvalNode(p.commands[LastSpec(xs)[1]].destination[LastSpec(xs)[2]].destination)))

\* C5: once the stages of an n-stage pipeline are launched (the shell waits
\* for the last one), the n children are the n stages in source order; stage
\* 0 reads the input redirect or else the inherited input, stage i > 0 reads
\* the pipe stage i-1 writes, and stage n-1 writes the output redirect or
\* else the inherited output.
C5_StagesLaunchedInOrderAndWired ==
  (fx.stmt.type = "Pipeline" /\ waiting # 0)
    => /\ Len(fx.spawned) = Len(fx.stmt.commands)
       /\ \A i \in 1..Len(fx.spawned) :
            /\ procs[fx.spawned[i]].argv[1] = StageToken(fx.stmt.commands[i])
            /\ i < Len(fx.spawned) => fx.spawned[i] < fx.spawned[i + 1]
            /\ procs[fx.spawned[i]].stdin =
                 (IF i = 1 THEN Bound(fx.stmt, InputSpecs(fx.stmt)) ELSE FromPipe(fx.spawned[i - 1]))
            /\ procs[fx.spawned[i]].stdout =
                 (IF i = Len(fx.spawned) THEN Bound(fx.stmt, OutputSpecs(fx.stmt)) ELSE FromPipe(fx.spawned[i]))

\* a statement of one stage whose first token is a built-in name
SingleBuiltinStage(node) ==
  node.type \in {"CommandStatement", "Redirect"} /\ StageToken(node) \in Builtins

\* C6: a single-stage statement whose first token is cd, exit, %fl or %logo
\* runs that built-in handler, creates no child process and no pipe, and
\* opens or creates no redirect target.
C6_BuiltinStatementRunsInShell ==
  SingleBuiltinStage(fx.stmt)
    => /\ fx.builtins = <<StageToken(fx.stmt)>>
       /\ fx.spawned = <<>>
       /\ fx.pipes = 0
       /\ fx.opened = <<>>

\* C7: while a pipeline is evaluated no built-in handler is invoked.
C7_NoBuiltinInPipeline ==
  fx.stmt.type = "Pipeline" => fx.builtins = <<>>

\* C8: when the launch loop is handed an empty list of stages, the pipeline
\* evaluation returns without creating a process or a pipe and without
\* ending the shell.
C8_EmptyStageListIsNoOp ==
  (fx.stmt.type = "Pipeline" /\ fx.launched = 0)
    => (term = "none" /\ fx.returned /\ fx.spawned = <<>> /\ fx.pipes = 0)

\* C9: once the exit built-in has run, the shell process has ended with exit
\* code 0 at that point: nothing was launched after it, its statement did not
\* return, and the statements that follow it stay unevaluated.
C9_ExitEndsShellWithCode0 ==
  /\ ExitRan => (term = "exit" /\ code = 0)
  /\ term = "exit" => (/\ ExitRan
                       /\ fx.builtins[Len(fx.builtins)] = "exit"
                       /\ ~fx.returned
                       /\ waiting = 0
                       /\ history[Len(history)].command = Join(fx.calls[Len(fx.calls)].args)
                       /\ fx.calls[Len(fx.calls)].args[1] = "exit")

\* the shell ended in exit while a statement after it was still to be evaluated
C9_Witness ==
  term = "exit" /\ code = 0 /\ stack # <<>> /\ stack[Len(stack)].todo # <<>>

\* the directory a cd call names, "./" when it has no argument
CdTarget(call) == IF Len(call.args) >= 2 THEN call.args[2] ELSE "./"

Last(seq) == seq[Len(seq)]

\* C11: in every execute_commands call in progress the statements visited so
\* far followed by those still to visit are the children of the
\* CompoundStatement in source order (none skipped, repeated or reordered);
\* while the shell waits for a child, the child belongs to the statement
\* visited last and that statement has not returned; the children a statement
\* launches are launched after every child of the statements before it.
C11_StatementsInSourceOrder ==
  /\ \A k \in 1..Len(stack) : stack[k].done \o stack[k].todo = stack[k].all
  /\ \A k \in 1..(Len(stack) - 1) :
        stack[k].done # <<>> /\ Last(stack[k].done).type = "ExecScript"
  /\ waiting # 0 =>
        /\ stack # <<>>
        /\ Last(stack).done # <<>>
        /\ fx.stmt = Last(Last(stack).done)
        /\ ~fx.returned
        /\ \E j \in 1..Len(fx.spawned) : fx.spawned[j] = waiting
  /\ \A j \in 1..Len(fx.spawned) : fx.spawned[j] = Len(procs) - Len(fx.spawned) + j

\* the second statement of `ls; cat` waits for its child after the child of
\* the first has terminated, and no statement is left
C11_Witness ==
  /\ nlines = 1
  /\ stack # <<>>
  /\ Len(Last(stack).done) = 2
  /\ Last(stack).todo = <<>>
  /\ Len(procs) = 2
  /\ procs[1].state = "terminated"
  /\ waiting = 2

\* C12: whenever parse_node succeeds on the text execute_commands was handed,
\* the CompoundStatement it returns accounts for the whole text: nothing is
\* left unparsed, so no evaluation starts from a prefix of the text.
C12_ParseAccountsForWholeInput ==
  (parsed.done /\ parsed.fn = "parse_node" /\ parsed.ok) => parsed.rest = ""

\* the message of a failed parse is the last thing the shell printed
ParseFailureReported == fx.reports # <<>> /\ Last(fx.reports) = "Failed to parse input"

\* C13: right after execute_commands failed to parse its text nothing of it
\* has been evaluated (no built-in ran, no process was spawned), the failure
\* is reported and the shell runs on; for a command line the buffer is
\* cleared and 1 returned.  Whenever a call for a command line has returned,
\* the buffer is cleared and the value returned is 1 after a failed parse and
\* the evaluator's 0 otherwise; the buffer is not cleared before that.
C13_ParseFailureEvaluatesNothing ==
  /\ (parsed.done /\ ~parsed.ok /\ ParseFailureReported)
       => /\ term = "none"
          /\ fx.builtins = <<>> /\ fx.spawned = <<>> /\ fx.calls = <<>>
          /\ fx.stmt.type \in {"CompoundStatement", "ExecScript"}
          /\ fx.stmt.type = "CompoundStatement" => (stack = <<>> /\ ret = 1 /\ buffer = "")
          /\ stack # <<>> => ret = 1
  /\ (stack = <<>> /\ term = "none" /\ nlines > 0)
       => /\ buffer = ""
          /\ ret = (IF fx.stmt.type = "CompoundStatement" THEN 1 ELSE 0)
          /\ fx.stmt.type = "CompoundStatement" => (~parsed.ok /\ ParseFailureReported)
  /\ stack # <<>> => buffer # ""

\* the line `| ls` failed to parse and the next line was evaluated and returned 0
C13_Witness ==
  /\ nlines = 2
  /\ history[1].command = "| ls"
  /\ Len(history) > 2
  /\ stack = <<>>
  /\ term = "none"
  /\ ret = 0
  /\ buffer = ""

\* C14: a pipeline text of n >= 2 commands separated by '|', each with its
\* bareword arguments, parses to one Pipeline whose stages are the n
\* CommandStatement nodes in source order, each with its own name and its
\* own arguments in order, and nothing of the text is left over; through
\* parse_pipeline itself and through parse_node.
C14_PipelineStagesInSourceOrder ==
  \A p \in PipelineInputs :
    (parsed.done /\ parsed.text = p.text /\ parsed.fn \in {"parse_pipeline", "parse_node"})
      => /\ parsed.ok
         /\ parsed.rest = ""
         /\ parsed.stmts = <<Pipeline([i \in 1..Len(p.stages) |->
                                         Cmd(p.stages[i].name, p.stages[i].args)])>>

\* a three-stage pipeline whose stages have different names and arguments
\* has been parsed by parse_pipeline
C14_Witness ==
  /\ parsed.done
  /\ parsed.fn = "parse_pipeline"
  /\ parsed.text = "c1 a1 a2 | c2 b1 | c3"
  /\ parsed.stmts = <<Pipeline(<<Cmd("c1", <<"a1", "a2">>), Cmd("c2", <<"b1">>), Cmd("c3", <<>>)>>)>>

\* C15: `echo "Hello, World!" > sorted.txt | cat sorted.txt` parses through
\* parse_compound_statement to one Pipeline whose stages are the Redirect of
\* echo to sorted.txt and the command cat sorted.txt.
C15_RedirectStageJoinsPipeline ==
  (parsed.done /\ parsed.fn = "parse_node"
     /\ parsed.text = "echo \"Hello, World!\" > sorted.txt | cat sorted.txt")
    => /\ parsed.ok
       /\ parsed.stmts =
            <<Pipeline(<<Redirect(CommandStatement(Identifier("echo"), <<Identifier("Hello, World!")>>),
                                  <<RedirectOutput(Identifier("sorted.txt"))>>),
                         Cmd("cat", <<"sorted.txt">>)>>)>>

\* C16: for each of the operators <, >, >>, 2> and 2>> the text
\* `cmd OP file` parses to Redirect(CommandStatement(cmd, []), [node(file)])
\* where node is the specifier kind of that operator, with nothing of the
\* text left over.
C16_EachOperatorHasItsOwnSpecifier ==
  \A spec \in { <<"<", "RedirectInput">>, <<">", "RedirectOutput">>,
                <<">>", "RedirectOutputAppend">>, <<"2>", "RedirectErrorOutput">>,
                <<"2>>", "RedirectErrorOutputAppend">> } :
    (parsed.done /\ parsed.fn \in {"parse_redirect", "parse_node"}
       /\ parsed.text = "cmd " \o spec[1] \o " file")
      => /\ parsed.ok
         /\ parsed.rest = ""
         /\ parsed.stmts = <<Redirect(Cmd("cmd", <<>>),
                                      <<[type |-> spec[2], destination |-> Identifier("file")]>>)>>

\* C17: when the child of a redirect statement has been launched, each of
\* its streams that the statement redirects is bound to the destination of
\* the last specifier of that stream, and no stream of the child is bound
\* to an earlier destination of it: only the last destination can receive
\* what the child writes.
C17_LastSpecifierWins ==
  (fx.stmt.type = "Redirect" /\ waiting # 0 /\ Len(fx.spawned) = 1)
    => \A type \in {"RedirectInput", "RedirectOutput", "RedirectErrorOutput"} :
         \A last \in 1..Len(fx.stmt.destination) :
           (/\ fx.stmt.destination[last].type = type
            /\ \A i \in (last + 1)..Len(fx.stmt.destination) : fx.stmt.destination[i].type # type)
             => /\ (IF type = "RedirectInput" THEN procs[fx.spawned[1]].stdin
                    ELSE IF type = "RedirectOutput" THEN procs[fx.spawned[1]].stdout
                    ELSE procs[fx.spawned[1]].stderr)
                     = FromFile(PathOf(fx.cwd0, EvalNode(fx.stmt.destination[last].destination)))
                /\ \A i \in 1..(last - 1) :
                     (/\ fx.stmt.destination[i].type = type
                      /\ fx.stmt.destination[i].destination # fx.stmt.destination[last].destination)
                       => FromFile(PathOf(fx.cwd0, EvalNode(fx.stmt.destination[i].destination)))
                            \notin {procs[fx.spawned[1]].stdin, procs[fx.spawned[1]].stdout,
                                     procs[fx.spawned[1]].stderr}

\* `ls > a.txt > b.txt` has launched ls: both files were created, and the
\* output of ls goes to b.txt
C17_Witness ==
  /\ fx.stmt.type = "Redirect"
  /\ waiting # 0
  /\ Len(fx.stmt.destination) = 2
  /\ fx.stmt.destination[1] = RedirectOutput(Identifier("a.txt"))
  /\ fx.stmt.destination[2] = RedirectOutput(Identifier("b.txt"))
  /\ {PathOf(fx.cwd0, "a.txt"), PathOf(fx.cwd0, "b.txt")} \subseteq files
  /\ procs[waiting].stdout = FromFile(PathOf(fx.cwd0, "b.txt"))

\* C18: once the stages of a pipeline are launched, when one of its stages
\* carries an error-output redirect, the standard error of every child of
\* the pipeline is bound to the file of the last such specifier.
C18_ErrorRedirectOnEveryStage ==
  (fx.stmt.type = "Pipeline" /\ waiting # 0)
    => \A s \in 1..Len(fx.stmt.commands) :
         fx.stmt.commands[s].type = "Redirect"
           => \A d \in 1..Len(fx.stmt.commands[s].destination) :
                (/\ fx.stmt.commands[s].destination[d].type = "RedirectErrorOutput"
                 /\ \A e \in (d + 1)..Len(fx.stmt.commands[s].destination) :
                      fx.stmt.commands[s].destination[e].type # "RedirectErrorOutput"
                 /\ \A t \in (s + 1)..Len(fx.stmt.commands) :
                      fx.stmt.commands[t].type = "Redirect"
                        => \A e \in 1..Len(fx.stmt.commands[t].destination) :
                             fx.stmt.commands[t].destination[e].type # "RedirectErrorOutput")
                  => \A i \in 1..Len(fx.spawned) :
                       procs[fx.spawned[i]].stderr =
                         FromFile(PathOf(fx.cwd0, EvalNode(fx.stmt.commands[s].destination[d].destination)))

\* C19: once `x="1"` has been evaluated, on a command line or in a script
\* run through ExecScript, a later command `ls $x` is launched with the
\* reference resolved: its argument is 1.
C19_DefinedVariableResolves ==
  (/\ fx.stmt = Cmd("ls", <<"$x">>)
   /\ waiting # 0
   /\ \E i \in 1..Len(history) : history[i].command = "x=\"1\"")
    => procs[waiting].argv = <<"ls", "1">>

RECURSIVE Pending(_)
\* the statements the calls in progress have still to evaluate, in the
\* order the for loops of eval_compound_statement reach them: those of the
\* innermost call first
Pending(frames) ==
  IF frames = <<>> THEN <<>>
  ELSE frames[Len(frames)].todo \o Pending(SubSeq(frames, 1, Len(frames) - 1))

\* C20: the session behaves as one list of top-level statements in which an
\* ExecScript of a readable file stands for the statements of its contents.
\* Every evaluation step takes the first pending statement; when it is an
\* ExecScript whose file can be read and parsed, the statements of the file
\* take its place in front of the statements that followed it, nothing else
\* of the session changes (directory, files, processes), and they start with
\* the evaluator state a top-level statement at that position starts with;
\* any other statement is just removed; and a step in which a wait returns
\* leaves the pending statements as they are.
C20_ScriptRunsAsTopLevelStatements ==
  [][ /\ (stack # <<>> /\ waiting = 0 /\ stack' # stack)
         => /\ fx'.stmt = Head(Pending(stack))
            /\ CurrentEvaluator = NewEvaluator
            /\ IF /\ fx'.stmt.type = "ExecScript"
                  /\ PathOf(cwd, EvalNode(fx'.stmt.exec_script)) \in files
                  /\ ParseTable[Contents(PathOf(cwd, EvalNode(fx'.stmt.exec_script)))].ok
               THEN /\ Pending(stack') =
                         ParseTable[Contents(PathOf(cwd, EvalNode(fx'.stmt.exec_script)))].stmts
                           \o Tail(Pending(stack))
                    /\ Len(stack') = Len(stack) + 1
                    /\ stack'[Len(stack')].ev = NewEvaluator
                    /\ <<cwd, files, procs, term, waiting>>' = <<cwd, files, procs, term, waiting>>
               ELSE Pending(stack') = Tail(Pending(stack))
      /\ (stack # <<>> /\ waiting # 0) => Pending(stack') = Pending(stack) ]_vars

\* the script two.rsh (`cd /tmp` and `ls`) was run by `./two.rsh`: its
\* statements have been evaluated, the call has returned to the command
\* line, and the directory change of the script is that of the session
C20_Witness ==
  /\ stack = <<>>
  /\ buffer = ""
  /\ parsed.text = Contents(<<"/", "two.rsh">>)
  /\ \E i \in 1..Len(history) : history[i].command = "./two.rsh"
  /\ fx.stmt = Cmd("ls", <<>>)
  /\ fx.returned
  /\ fx.cwd0 = "/tmp"
  /\ cwd = "/tmp"

\* C21: a text between a matching pair of double or single quotes, used as
\* a command argument, becomes one Identifier holding exactly the characters
\* between the quotes, also when it holds spaces or metacharacters and when
\* it is empty; through parse_command, parse_command_with_backslash and
\* parse_node.
C21_QuotedArgumentIsOneIdentifier ==
  \A quote \in {"\"", "'"} : \A inner \in {"a b", "", "a;b #c"} :
    (parsed.done /\ parsed.text = "echo " \o quote \o inner \o quote
       /\ parsed.fn \in {"parse_command", "parse_command_with_backslash", "parse_node"})
      => /\ parsed.ok
         /\ parsed.rest = ""
         /\ parsed.stmts = <<Cmd("echo", <<inner>>)>>

\* C22: `# note` followed by `ls` on the next line parses to the Comment
\* " note" and the command, in that order; and the step that evaluates a
\* Comment changes nothing: no built-in, no rsh_execute call, no file, no
\* process, no message, no history record, and the same evaluator state,
\* directory and shell status as before.
C22_CommentHasNoEffect ==
  /\ []((parsed.done /\ parsed.text = "# note\nls")
          => (parsed.ok /\ parsed.rest = "" /\ parsed.stmts = <<Comment(" note"), Cmd("ls", <<>>)>>))
  /\ [][ (stack # <<>> /\ waiting = 0 /\ term = "none" /\ stack' # stack
            /\ Head(Pending(stack)).type = "Comment")
           => /\ fx' = [NoEffects(Head(Pending(stack)), cwd) EXCEPT !.returned = TRUE]
              /\ <<cwd, files, history, procs, waiting, term, code>>'
                   = <<cwd, files, history, procs, waiting, term, code>>
              /\ Len(stack') = Len(stack) => stack'[Len(stack')].ev = stack[Len(stack)].ev ]_vars

\* the comment of `# note` / `ls` has been evaluated and ls is next
C22_Witness ==
  /\ parsed.text = "# note\nls"
  /\ fx.stmt = Comment(" note")
  /\ fx.returned
  /\ Pending(stack) = <<Cmd("ls", <<>>)>>
  /\ procs = <<>>

\* C23: when the evaluation of a command line has returned to the loop, the
\* history holds one record for each top-level statement of the line (stated
\* for the first line of a session that ran no script, so that the history
\* holds the records of that line only).
C23_OneHistoryRecordPerStatement ==
  (/\ nlines = 1
   /\ stack = <<>>
   /\ waiting = 0
   /\ term = "none"
   /\ parsed.ok
   /\ parsed.text = history[1].command)
    => Len(history) = Len(parsed.stmts)

\* C24: the shell ignores SIGTSTP, SIGTTIN and SIGTTOU, and every child
\* created for a command or a pipeline stage starts its program with the
\* default disposition of the three signals.
C24_ChildrenStartWithDefaultTtySignals ==
  /\ ignore_tty_signals = "SigIgn"
  /\ \A pid \in 1..Len(procs) : procs[pid].tty_signals = restore_tty_signals

\* C25: the statements s1..sk separated by `;`, by line breaks or by both,
\* with or without a trailing separator, parse to CompoundStatement of
\* s1..sk in source order, with nothing of the text left over.
C25_SeparatorsKeepStatementsInOrder ==
  \A c \in CompoundInputs :
    (parsed.done /\ parsed.fn = "parse_node" /\ parsed.text = c.text)
      => (parsed.ok /\ parsed.rest = "" /\ parsed.stmts = c.nodes)

\* C26: a command text `name a1 ... ak` with k >= 0 arguments separated by
\* spaces parses to CommandStatement(Identifier(name), [a1, ..., ak]) with the
\* arguments in order, the empty list when k = 0, and nothing left over;
\* through parse_command itself and through parse_node.
C26_CommandHoldsItsArgumentsInOrder ==
  \A p \in PipelineInputs :
    (parsed.done /\ parsed.fn \in {"parse_command", "parse_node"}
       /\ parsed.text = Join(<<p.stages[1].name>> \o p.stages[1].args))
      => /\ parsed.ok
         /\ parsed.rest = ""
         /\ parsed.stmts = <<Cmd(p.stages[1].name, p.stages[1].args)>>

\* parse_command has parsed a command with two arguments, and one with none
C26_Witness ==
  /\ parsed.done
  /\ parsed.fn = "parse_command"
  /\ \/ parsed.text = "c1 a1 a2" /\ parsed.stmts = <<Cmd("c1", <<"a1", "a2">>)>>
     \/ parsed.text = "c1" /\ parsed.stmts = <<Cmd("c1", <<>>)>>

\* C27: inside a command a backslash followed by spaces or none, a '#'
\* comment or none, and a line break continues the argument list: the parse
\* succeeds, leaves nothing over, and is one CommandStatement holding the
\* arguments before and after the backslash in order and nothing else
C27_BackslashContinuesTheArgumentList ==
  \A b \in BackslashInputs :
    (parsed.done /\ parsed.text = b.text
       /\ parsed.fn \in {"parse_command_with_backslash", "parse_node"})
      => /\ parsed.ok
         /\ parsed.rest = ""
         /\ parsed.stmts = <<Cmd("echo", b.args)>>

\* C28: the alternatives of a statement are tried in the order comment,
\* exec-script, define, pipeline, redirect, command: when one of them
\* matches the start of a text, the first statement parsed from the text is
\* the node of the first alternative, in that order, that matches
C28_HighestPriorityAlternativeWins ==
  \A text \in ParseTexts :
    LET byPriority == parse(alt(<<parse_comment, parse_exec_script, parse_define, parse_pipeline,
                                  parse_redirect, parse_command_with_backslash, parse_command>>),
                            text)
    IN  (parsed.done /\ parsed.fn = "parse_node" /\ parsed.text = text /\ byPriority.ok)
          => /\ parsed.ok
             /\ parsed.stmts # <<>>
             /\ parsed.stmts[1] = byPriority.out

C30_FilenameIsOneToken ==
  \A name \in Filenames :
    /\ (parsed.done /\ parsed.text = "ls > " \o name /\ parsed.fn \in {"parse_redirect", "parse_node"})
          => /\ parsed.ok
             /\ parsed.rest = ""
             /\ parsed.stmts = <<Redirect(Cmd("ls", <<>>), <<RedirectOutput(Identifier(name))>>)>>
    /\ (parsed.done /\ parsed.text = "./" \o name /\ parsed.fn = "parse_node")
          => /\ parsed.ok
             /\ parsed.rest = ""
             /\ parsed.stmts = <<ExecScript(Identifier(name))>>

\* C31: the Identifier parse_constant returns is a maximal run of characters
\* that holds no space, tab or line break, no backslash, '<', '>', ';', '|',
\* '=' or '#', and no quote character
C31_ConstantHoldsNoSeparatorOrQuote ==
  (parsed.done /\ parsed.fn = "parse_constant" /\ parsed.ok)
    => /\ Span(parsed.stmts[1].text, ConstantStop \cup {"\t", "\"", "'"}, FALSE) = Len(parsed.stmts[1].text)
       /\ parsed.rest # "" => SubSeq(parsed.rest, 1, 1) \in ConstantStop \cup {"\t", "\"", "'"}

\* C32: for a pipeline of n stages (n >= 2) that were all handed to the
\* launch loop and spawned, the evaluation has created exactly n - 1 pipes,
\* and no end of any of them is open in the shell once the stages are spawned
C32_OnePipePerStageBoundary ==
  (/\ fx.stmt.type = "Pipeline"
   /\ Len(fx.stmt.commands) >= 2
   /\ fx.launched = Len(fx.stmt.commands)
   /\ Len(fx.spawned) = Len(fx.stmt.commands))
    => /\ fx.pipes = Len(fx.stmt.commands) - 1
       /\ fx.held = {}

\* C33: the shell never holds the write end of a pipe between two stages
\* once the stages are spawned, so a pipeline of programs that end on
\* end-of-file of their input terminates: whenever the shell waits for a
\* pipeline, the wait eventually returns with every stage terminated
C33_PipelineEndsOnEndOfFile ==
  /\ [](\A end \in fx.held : end[3] # "write")
  /\ (fx.stmt.type = "Pipeline" /\ waiting # 0)
       ~> (waiting = 0 /\ \A i \in 1..Len(fx.spawned) : procs[fx.spawned[i]].state = "terminated")

\* C33: the wait for a pipeline of three stages has returned and every
\* stage has terminated
C33_Witness ==
  /\ fx.stmt.type = "Pipeline"
  /\ Len(fx.spawned) = 3
  /\ fx.returned
  /\ waiting = 0
  /\ fx.held = {}
  /\ \A i \in 1..Len(fx.spawned) : procs[fx.spawned[i]].state = "terminated"

\* C34: nothing of a Redirect or Pipeline statement carries over once its
\* evaluation has returned: unless the shell waits for the last stage of a
\* pipeline, the mode of every Evaluator is NoPipe and its list of collected
\* stages is empty; and a command that is a statement of its own is launched
\* directly, with the streams of the shell, and is not kept as a stage
C34_NothingCarriesOver ==
  /\ (term = "none" /\ ~(waiting # 0 /\ fx.stmt.type = "Pipeline"))
       => \A i \in 1..Len(stack) : stack[i].ev = NewEvaluator
  /\ fx.stmt.type = "CommandStatement"
       => \A i \in 1..Len(fx.spawned) :
            /\ procs[fx.spawned[i]].stdin = Inherit
            /\ procs[fx.spawned[i]].stdout = Inherit
            /\ procs[fx.spawned[i]].stderr = Inherit
            /\ procs[fx.spawned[i]].argv = fx.calls[1].args

\* C34: the command that follows a pipeline, and the command that follows a
\* redirect, in the same line has been launched directly
C34_Witness ==
  /\ parsed.text \in {"ls | cat; ls", "ls > out.txt; cat"}
  /\ fx.stmt.type = "CommandStatement"
  /\ Len(fx.spawned) = 1
  /\ procs[fx.spawned[1]].stdout = Inherit
  /\ stack # <<>>
  /\ stack[1].done[1].type \in {"Pipeline", "Redirect"}
  /\ stack[1].ev = NewEvaluator

\* C35: the history file is append-only and round-trips: a write leaves the
\* text written before as it is, and csv_reader returns exactly the
\* (command, time) pairs written so far, in the order they were written
C35_HistoryRoundTrips ==
  /\ [][log'.file # log.file
           => SubSeq(log'.file, 1, Len(log.file)) = log.file]_vars
  /\ [][log'.reads # log.reads => log'.read = log.written]_vars

\* C36: a Tab press never indexes the list of candidates out of bounds:
\* rsh_char_search returns an error when there is no candidate and else the
\* candidate at an index smaller than the number of candidates
C36_TabIndexIsInBounds ==
  /\ editor.panic # "index"
  /\ editor.found.result = "Err" => editor.found.n = 0
  /\ editor.found.result = "Ok" => editor.found.index < editor.found.n

\* C37: after any key events of Mode::Input no insertion or removal was
\* attempted at an invalid position and no subtraction underflowed, cursor_x
\* is a char boundary between 0 and the byte length of the buffer, and
\* char_count is the number of characters in front of the cursor
C37_CursorStaysOnACharBoundary ==
  /\ editor.panic \notin {"insert", "remove", "underflow"}
  /\ editor.panic = "none"
       => /\ 0 <= editor.cursor_x
          /\ editor.cursor_x <= ByteLen(editor.buffer)
          /\ IsCharBoundary(editor.buffer, editor.cursor_x)
          /\ editor.char_count = CharsBefore(editor.buffer, editor.cursor_x)

\* C38: execute_commands terminates for every text, scripts that run scripts
\* included: no call of execute_commands is nested in a call in progress on
\* the same statements, which would evaluate them again and nest once more
\* without end
C38_NoScriptRunsInsideItself ==
  \A i \in 1..Len(stack) : \A j \in 1..Len(stack) :
    i < j => stack[i].all # stack[j].all

====
